---- MODULE Spec2Model ----
(***************************************************************************)
(* Hexxagon board core (src/main.rs): pieces, double-width hex geometry,   *)
(* the ASCII loader, neighbour queries, set and do_move.                   *)
(*                                                                         *)
(* A position is a pair <<x, y>>.  A board's position map is a function    *)
(* from its keys (the on-board positions) to pieces.  Option<&Piece> is    *)
(* modelled by the pieces plus the value None.  A text is the sequence of  *)
(* its lines, a line the sequence of its characters.                       *)
(***************************************************************************)
EXTENDS Integers, Sequences, FiniteSets, TLC

VARIABLES input, status, positions, turn, last, prev, hist

vars == <<input, status, positions, turn, last, prev, hist>>

----------------------------------------------------------------------------
(* Pieces *)

Empty == "Empty"
Black == "Black"
White == "White"
None == "None"

Piece == {Empty, Black, White}

(* Mutant: only Black has an opposite. *)
opposite_of_black(p) ==
    CASE p = Black -> White
      [] OTHER -> Empty

opposite(p) ==
    CASE p = Empty -> Empty
      [] p = Black -> White
      [] p = White -> Black

----------------------------------------------------------------------------
(* Geometry *)

(* Mutant: SW mistyped as a second NW. *)
STEP_DIRECTIONS_Typo ==
    << <<2, 0>>, <<1, 1>>, <<-1, 1>>, <<-2, 0>>, <<-1, 1>>, <<1, -1>> >>

STEP_DIRECTIONS ==
    << <<2, 0>>, <<1, 1>>, <<-1, 1>>, <<-2, 0>>, <<-1, -1>>, <<1, -1>> >>

(* Mutant: N mistyped as <<0, 1>>. *)
LEAP_DIRECTIONS_Typo ==
    << <<4, 0>>, <<3, 1>>, <<2, 2>>, <<0, 1>>, <<-2, 2>>, <<-3, 1>>,
       <<-4, 0>>, <<-3, -1>>, <<-2, -2>>, <<0, -2>>, <<2, -2>>, <<3, -1>> >>

LEAP_DIRECTIONS ==
    << <<4, 0>>, <<3, 1>>, <<2, 2>>, <<0, 2>>, <<-2, 2>>, <<-3, 1>>,
       <<-4, 0>>, <<-3, -1>>, <<-2, -2>>, <<0, -2>>, <<2, -2>>, <<3, -1>> >>

offset(pos, dir) == <<pos[1] + dir[1], pos[2] + dir[2]>>

----------------------------------------------------------------------------
(* Board queries and mutation.  b is a position map. *)

at(b, pos) == IF pos \in DOMAIN b THEN b[pos] ELSE None

(* Mutant: set inserts the position when it is not a key. *)
set_inserting(b, pos, piece) ==
    [q \in DOMAIN b \cup {pos} |-> IF q = pos THEN piece ELSE b[q]]

(* Mutant: setting Empty removes the key. *)
set_removing(b, pos, piece) ==
    IF piece = Empty
    THEN [q \in DOMAIN b \ {pos} |-> b[q]]
    ELSE IF pos \in DOMAIN b THEN [b EXCEPT ![pos] = piece] ELSE b

set(b, pos, piece) ==
    IF pos \in DOMAIN b THEN [b EXCEPT ![pos] = piece] ELSE b

SetMin(S) == CHOOSE m \in S : \A n \in S : m <= n
SetMax(S) == CHOOSE m \in S : \A n \in S : m >= n

min_x(b) == SetMin({p[1] : p \in DOMAIN b})
max_x(b) == SetMax({p[1] : p \in DOMAIN b})
min_y(b) == SetMin({p[2] : p \in DOMAIN b})
max_y(b) == SetMax({p[2] : p \in DOMAIN b})

(* Mutant: the neighbours of an off-board position are collected too. *)
neighbors_unchecked(b, pos, directions) ==
    SelectSeq([i \in 1..Len(directions) |-> offset(pos, directions[i])],
              LAMBDA n : at(b, n) # None)

(* Mutant: Empty cells are not counted as neighbours. *)
neighbors_occupied(b, pos, directions) ==
    IF at(b, pos) = None
    THEN << >>
    ELSE SelectSeq([i \in 1..Len(directions) |-> offset(pos, directions[i])],
                   LAMBDA n : at(b, n) # None /\ at(b, n) # Empty)

neighbors(b, pos, directions) ==
    IF at(b, pos) = None
    THEN << >>
    ELSE SelectSeq([i \in 1..Len(directions) |-> offset(pos, directions[i])],
                   LAMBDA n : at(b, n) # None)

step_neighbors(b, pos) == neighbors(b, pos, STEP_DIRECTIONS)

leap_neighbors(b, pos) == neighbors(b, pos, LEAP_DIRECTIONS)

(* Mutant: every neighbour is set to the mover's colour, whatever it held. *)
RECURSIVE flip_loop_any(_, _, _, _)
flip_loop_any(b, t, ns, i) ==
    IF i > Len(ns)
    THEN b
    ELSE flip_loop_any(set(b, ns[i], t), t, ns, i + 1)

(* Mutant: a flipped neighbour flips its own neighbours in turn. *)
RECURSIVE flip_loop_ripple(_, _, _, _)
flip_loop_ripple(b, t, ns, i) ==
    IF i > Len(ns)
    THEN b
    ELSE flip_loop_ripple(
             IF at(b, ns[i]) # None /\ at(b, ns[i]) = opposite(t)
             THEN flip_loop_ripple(set(b, ns[i], t), t, step_neighbors(b, ns[i]), 1)
             ELSE b,
             t, ns, i + 1)

(* The loop of flip_neighbors over the neighbour list ns, from index i on. *)
RECURSIVE flip_loop(_, _, _, _)
flip_loop(b, t, ns, i) ==
    IF i > Len(ns)
    THEN b
    ELSE flip_loop(IF at(b, ns[i]) # None /\ at(b, ns[i]) = opposite(t)
                   THEN set(b, ns[i], t)
                   ELSE b,
                   t, ns, i + 1)

(* Mutant: only the first neighbour is looked at. *)
flip_neighbors_first(b, t, pos) ==
    LET ns == step_neighbors(b, pos)
    IN IF ns = << >> THEN b ELSE flip_loop(b, t, <<ns[1]>>, 1)

(* Mutant: the leap ring is flipped instead of the step ring. *)
flip_neighbors_leap_ring(b, t, pos) ==
    flip_loop(b, t, leap_neighbors(b, pos), 1)

flip_neighbors(b, t, pos) == flip_loop(b, t, step_neighbors(b, pos), 1)

(* Moves are records: Step(pos) and Leap(start, end). *)
Step(pos) == [kind |-> "Step", pos |-> pos]
Leap(start, end) == [kind |-> "Leap", start |-> start, end |-> end]

(* Mutant: a Leap does not advance the turn. *)
do_move_turn_on_step(b, t, mv) ==
    IF mv.kind = "Step"
    THEN [positions |-> flip_neighbors(set(b, mv.pos, t), t, mv.pos),
          turn |-> opposite(t)]
    ELSE [positions |-> flip_neighbors(set(set(b, mv.start, Empty), mv.end, t),
                                       t, mv.end),
          turn |-> t]

(* Mutant: a Leap leaves the piece at its start. *)
do_move_leap_copies(b, t, mv) ==
    [positions |-> IF mv.kind = "Step"
                   THEN flip_neighbors(set(b, mv.pos, t), t, mv.pos)
                   ELSE flip_neighbors(set(b, mv.end, t), t, mv.end),
     turn |-> opposite(t)]

(* do_move on the board [positions, turn]; the result is the new board. *)
do_move(b, t, mv) ==
    LET placed ==
          IF mv.kind = "Step"
          THEN flip_neighbors(set(b, mv.pos, t), t, mv.pos)
          ELSE flip_neighbors(set(set(b, mv.start, Empty), mv.end, t), t, mv.end)
    IN [positions |-> placed, turn |-> opposite(t)]

----------------------------------------------------------------------------
(* Loader.  A text is the sequence of its characters, "\n" among them.     *)

is_whitespace(c) == c = " "

(* str::lines: the text cut at each "\n"; a final "\n" ends the last line  *)
(* and starts no further one.                                              *)
RECURSIVE lines_from(_, _, _)
lines_from(s, i, cur) ==
    IF i > Len(s)
    THEN IF cur = << >> THEN << >> ELSE <<cur>>
    ELSE IF s[i] = "\n"
         THEN <<cur>> \o lines_from(s, i + 1, << >>)
         ELSE lines_from(s, i + 1, Append(cur, s[i]))

lines(s) == lines_from(s, 1, << >>)

IsBlank(line) == \A i \in 1..Len(line) : is_whitespace(line[i])

(* Number of leading whitespace characters of a line. *)
Indent(line) ==
    IF IsBlank(line)
    THEN Len(line)
    ELSE SetMin({i \in 1..Len(line) : ~is_whitespace(line[i])}) - 1

(* textwrap::dedent, as the sequence of the lines of its result: the       *)
(* whitespace prefix common to the lines that hold something but           *)
(* whitespace is removed from them; the other lines become empty.          *)
dedent(s) ==
    LET ls == lines(s)
        full == {i \in 1..Len(ls) : ~IsBlank(ls[i])}
        prefix == IF full = {} THEN 0 ELSE SetMin({Indent(ls[i]) : i \in full})
    IN [i \in 1..Len(ls) |->
          IF i \in full
          THEN SubSeq(ls[i], prefix + 1, Len(ls[i]))
          ELSE << >>]

trim_end(line) ==
    IF IsBlank(line)
    THEN << >>
    ELSE SubSeq(line, 1, SetMax({i \in 1..Len(line) : ~is_whitespace(line[i])}))

(* Mutant: 'X' and 'O' are exchanged. *)
piece_of_swapped(c) ==
    CASE c = "-" -> Empty
      [] c = "X" -> White
      [] c = "O" -> Black
      [] OTHER -> None

(* The match on a character in load. *)
piece_of(c) ==
    CASE c = "-" -> Empty
      [] c = "X" -> Black
      [] c = "O" -> White
      [] OTHER -> None

(* Board::load: the result is [status, positions, turn], status "Ok" for   *)
(* Ok(board), "Err" for the error value, "Panic" for a failed assertion.   *)
load(text) ==
    LET dedented == dedent(text)
        trimmed == [i \in 1..Len(dedented) |-> trim_end(dedented[i])]
        rows == SelectSeq(trimmed, LAMBDA l : l # << >>)
        keys == UNION {{<<x, y>> : x \in {c \in 0..(Len(rows[y + 1]) - 1) :
                                             piece_of(rows[y + 1][c + 1]) # None}} :
                       y \in 0..(Len(rows) - 1)}
        map == [p \in keys |-> piece_of(rows[p[2] + 1][p[1] + 1])]
    IN IF Cardinality(keys) = 0
       THEN [status |-> "Err", positions |-> map, turn |-> None]
       ELSE IF min_x(map) # 0 \/ min_y(map) # 0
            THEN [status |-> "Panic", positions |-> map, turn |-> None]
            ELSE [status |-> "Ok", positions |-> map, turn |-> Black]

----------------------------------------------------------------------------
(* Renderer *)

(* The match on at(&(x, y)) in fmt. *)
piece_char(p) ==
    CASE p = None -> " "
      [] p = Empty -> "-"
      [] p = Black -> "X"
      [] p = White -> "O"

(* Mutant: the rows are written without their line ends. *)
render_unbroken(b) ==
    LET w == max_x(b) - min_x(b) + 1
        h == max_y(b) - min_y(b) + 1
    IN [i \in 1..(h * w) |->
          piece_char(at(b, <<min_x(b) + ((i - 1) % w), min_y(b) + ((i - 1) \div w)>>))]

(* Display for Board: one row per y from min_y to max_y, one character per *)
(* x from min_x to max_x, each row ended by "\n".                          *)
render(b) ==
    LET w == max_x(b) - min_x(b) + 1
        h == max_y(b) - min_y(b) + 1
    IN [i \in 1..(h * (w + 1)) |->
          IF (i - 1) % (w + 1) = w
          THEN "\n"
          ELSE piece_char(at(b, <<min_x(b) + ((i - 1) % (w + 1)),
                                  min_y(b) + ((i - 1) \div (w + 1))>>))]

----------------------------------------------------------------------------
(* Inputs *)

(* "X - - - O": the single-row board of the scenario. *)
ScenarioText == <<"X", " ", "-", " ", "-", " ", "-", " ", "O">>

(* A hexagon of seven cells, written indented between blank lines as the   *)
(* board of main is.                                                       *)
HexText ==
    <<"\n",
      " ", " ", " ", "-", " ", "-", "\n",
      " ", " ", "-", " ", "-", " ", "-", "\n",
      " ", " ", " ", "-", " ", "-", "\n",
      " ", " ">>

GameTexts == {ScenarioText, HexText}

(* Off-board positions given to the operations besides the board's keys:   *)
(* <<1, 1>> has on-board step and leap offsets on the row board, <<5, 0>>  *)
(* on the hexagon.                                                         *)
OffBoardArgs == {<<1, 1>>, <<5, 0>>}

Args == DOMAIN positions \cup OffBoardArgs

Moves == {Step(p) : p \in Args} \cup {Leap(s, t) : <<s, t>> \in Args \X Args}

(* Characters of the loader's input: blank, the three cell characters, an  *)
(* unrecognised non-blank character and the line end.                      *)
Chars == {" ", "-", "X", "O", "#", "\n"}

MaxLen == 5

MaxMoves == 2

Texts == UNION {[1..k -> Chars] : k \in 0..MaxLen}

----------------------------------------------------------------------------
(* State machine.  input is the text given to load and status its outcome; *)
(* positions and turn are the board's fields.  last records the call just  *)
(* made and prev the board before it; hist (under SpecScenario) the moves  *)
(* made since load.                                                        *)

Board == [positions |-> positions, turn |-> turn]

NoBoard == [positions |-> << >>, turn |-> None]

Idle == last.op \in {"load", "return"}

(* The state load(text) leaves. *)
Loaded(text) ==
    LET r == load(text)
    IN /\ input = text
       /\ status = r.status
       /\ positions = r.positions
       /\ turn = r.turn
       /\ last = [op |-> "load"]
       /\ prev = NoBoard
       /\ hist = << >>

Init == \E text \in GameTexts : Loaded(text)

SetCell(pos, piece) ==
    /\ status = "Ok"
    /\ positions' = set(positions, pos, piece)
    /\ last' = [op |-> "set", pos |-> pos, piece |-> piece]
    /\ prev' = Board
    /\ UNCHANGED <<input, status, turn>>

DoMove(mv) ==
    LET r == do_move(positions, turn, mv)
    IN /\ status = "Ok"
       /\ positions' = r.positions
       /\ turn' = r.turn
       /\ last' = [op |-> "do_move", mv |-> mv]
       /\ prev' = Board
       /\ UNCHANGED <<input, status>>

StepNeighbors(pos) ==
    /\ status = "Ok"
    /\ last' = [op |-> "step_neighbors", pos |-> pos,
                result |-> step_neighbors(positions, pos)]
    /\ prev' = Board
    /\ UNCHANGED <<input, status, positions, turn>>

LeapNeighbors(pos) ==
    /\ status = "Ok"
    /\ last' = [op |-> "leap_neighbors", pos |-> pos,
                result |-> leap_neighbors(positions, pos)]
    /\ prev' = Board
    /\ UNCHANGED <<input, status, positions, turn>>

(* The call returns: its record is dropped and the caller goes on from the *)
(* board as it now is.                                                     *)
Return ==
    /\ ~Idle
    /\ last' = [op |-> "return"]
    /\ prev' = NoBoard
    /\ UNCHANGED <<input, status, positions, turn, hist>>

DoSet ==
    Idle /\ \E pos \in Args, piece \in Piece : SetCell(pos, piece) /\ UNCHANGED hist

DoStep ==
    Idle /\ \E pos \in Args : DoMove(Step(pos)) /\ UNCHANGED hist

DoLeap ==
    Idle /\ \E s \in Args, t \in Args : DoMove(Leap(s, t)) /\ UNCHANGED hist

QueryStep ==
    Idle /\ \E pos \in Args : StepNeighbors(pos) /\ UNCHANGED hist

QueryLeap ==
    Idle /\ \E pos \in Args : LeapNeighbors(pos) /\ UNCHANGED hist

Next == DoSet \/ DoStep \/ DoLeap \/ QueryStep \/ QueryLeap \/ Return

Spec == Init /\ [][Next]_vars

(* The scenario board and the moves made on it since load, one after the   *)
(* other, at most MaxMoves of them.                                        *)
InitScenario == Loaded(ScenarioText)

ScenarioMove ==
    /\ Len(hist) < MaxMoves
    /\ \E mv \in Moves : DoMove(mv) /\ hist' = Append(hist, mv)

NextScenario == ScenarioMove

SpecScenario == InitScenario /\ [][NextScenario]_vars

(* The loader on every text of at most MaxLen characters, a move on the    *)
(* board it returns, and the renderer with a load of the text it writes.   *)
InitLoad ==
    /\ input \in Texts
    /\ status = "Unloaded"
    /\ positions = << >>
    /\ turn = None
    /\ last = [op |-> "new"]
    /\ prev = NoBoard
    /\ hist = << >>

Load ==
    LET r == load(input)
    IN /\ status = "Unloaded"
       /\ status' = r.status
       /\ positions' = r.positions
       /\ turn' = r.turn
       /\ last' = [op |-> "load"]
       /\ UNCHANGED <<input, prev, hist>>

(* The moves between positions of the board. *)
BoardMoves ==
    {Step(p) : p \in DOMAIN positions}
        \cup {Leap(s, t) : <<s, t>> \in (DOMAIN positions) \X (DOMAIN positions)}

MoveLoaded ==
    /\ last.op = "load"
    /\ \E mv \in BoardMoves : DoMove(mv) /\ UNCHANGED hist

RenderAndLoad ==
    /\ status = "Ok"
    /\ last.op \in {"load", "do_move"}
    /\ last' = [op |-> "render", text |-> render(positions),
                reload |-> load(render(positions))]
    /\ prev' = Board
    /\ UNCHANGED <<input, status, positions, turn, hist>>

NextLoad == Load \/ MoveLoaded \/ RenderAndLoad

SpecLoad == InitLoad /\ [][NextLoad]_vars

----------------------------------------------------------------------------
(* Properties.  Each speaks of the call recorded in last, of the board     *)
(* before it (prev) and of the board after it (positions, turn).           *)

Range(f) == {f[i] : i \in DOMAIN f}

IsStep == last.op = "do_move" /\ last.mv.kind = "Step"
IsLeap == last.op = "do_move" /\ last.mv.kind = "Leap"

OnBoard(pos) == pos \in DOMAIN prev.positions

(* The other player. *)
Opponent(c) == IF c = Black THEN White ELSE Black

(* The positions one step direction away from pos, on the board or not. *)
StepRing(pos) ==
    {<<pos[1] + 2, pos[2]>>, <<pos[1] + 1, pos[2] + 1>>, <<pos[1] - 1, pos[2] + 1>>,
     <<pos[1] - 2, pos[2]>>, <<pos[1] - 1, pos[2] - 1>>, <<pos[1] + 1, pos[2] - 1>>}

(* The step-neighbours of pos that held the opponent's colour before the   *)
(* call.                                                                   *)
Captured(pos) ==
    {n \in StepRing(pos) \cap DOMAIN prev.positions :
        prev.positions[n] = Opponent(prev.turn)}

(* C1: after any do_move, Step or Leap, whatever its positions, the turn   *)
(* is the opposite of the turn before the call.                            *)
C1_TurnAlternation ==
    last.op = "do_move" =>
        /\ prev.turn = Black => turn = White
        /\ prev.turn = White => turn = Black

(* A Leap between two off-board positions made by White hands the turn to  *)
(* Black.                                                                  *)
C1_Witness ==
    /\ IsLeap
    /\ ~OnBoard(last.mv.start)
    /\ ~OnBoard(last.mv.end)
    /\ prev.turn = White
    /\ turn = Black

(* C2: after Step(target) with target on the board, target holds the       *)
(* mover's colour and every step-neighbour of target that held the         *)
(* opponent's colour holds the mover's colour.                             *)
C2_StepFlips ==
    (IsStep /\ OnBoard(last.mv.pos)) =>
        /\ positions[last.mv.pos] = prev.turn
        /\ \A n \in Captured(last.mv.pos) : positions[n] = prev.turn

(* A Step that flips all six neighbours of its target. *)
C2_Witness ==
    /\ IsStep
    /\ OnBoard(last.mv.pos)
    /\ Cardinality(Captured(last.mv.pos)) = 6
    /\ \A n \in Captured(last.mv.pos) : positions[n] = prev.turn

(* C3: after Step(target) with target on the board, a step-neighbour of    *)
(* target that held Empty or the mover's colour is unchanged, and so is    *)
(* every cell that is neither target nor a step-neighbour of target.       *)
C3_StepFrame ==
    (IsStep /\ OnBoard(last.mv.pos)) =>
        /\ DOMAIN positions = DOMAIN prev.positions
        /\ \A q \in DOMAIN prev.positions :
              (q # last.mv.pos /\ q \notin Captured(last.mv.pos))
                  => positions[q] = prev.positions[q]

(* A Step beside a neighbour of the mover's colour, an Empty neighbour and *)
(* a captured one, with an opponent's piece further away.                  *)
C3_Witness ==
    /\ IsStep
    /\ OnBoard(last.mv.pos)
    /\ Captured(last.mv.pos) # {}
    /\ \E n \in StepRing(last.mv.pos) \cap DOMAIN prev.positions :
          prev.positions[n] = prev.turn /\ positions[n] = prev.turn
    /\ \E n \in StepRing(last.mv.pos) \cap DOMAIN prev.positions :
          prev.positions[n] = Empty /\ positions[n] = Empty
    /\ \E q \in DOMAIN prev.positions \ (StepRing(last.mv.pos) \cup {last.mv.pos}) :
          prev.positions[q] = Opponent(prev.turn) /\ positions[q] = prev.positions[q]

(* C4, as claimed: after Leap(s, t) with s and t on the board, at(s) is    *)
(* Empty and at(t) is the mover's colour.                                  *)
C4_LeapRelocates_Claimed ==
    (IsLeap /\ OnBoard(last.mv.start) /\ OnBoard(last.mv.end)) =>
        /\ positions[last.mv.start] = Empty
        /\ positions[last.mv.end] = prev.turn

(* C4, amended: after Leap(s, t) with s and t on the board and s # t,      *)
(* at(s) is Empty and at(t) is the mover's colour; after Leap(s, s), at(s) *)
(* is the mover's colour.                                                  *)
C4_LeapRelocates ==
    (IsLeap /\ OnBoard(last.mv.start) /\ OnBoard(last.mv.end)) =>
        /\ positions[last.mv.end] = prev.turn
        /\ last.mv.start # last.mv.end => positions[last.mv.start] = Empty

(* A Leap of a piece of the mover to a distinct cell beside an opponent's  *)
(* piece and beside its own start.                                         *)
C4_Witness ==
    /\ IsLeap
    /\ OnBoard(last.mv.start)
    /\ OnBoard(last.mv.end)
    /\ last.mv.start # last.mv.end
    /\ last.mv.start \in StepRing(last.mv.end)
    /\ prev.positions[last.mv.start] = prev.turn
    /\ Captured(last.mv.end) # {}
    /\ positions[last.mv.start] = Empty

(* C5: after any sequence of set and do_move calls, whatever their         *)
(* arguments, the keys of the position map are the keys the board had when *)
(* it was loaded.                                                          *)
C5_FixedTopology ==
    status = "Ok" => DOMAIN positions = DOMAIN load(input).positions

(* A set of an off-board position has been made, after other calls. *)
C5_Witness ==
    /\ last.op = "set"
    /\ last.pos \notin DOMAIN load(input).positions
    /\ last.piece # Empty
    /\ prev.positions # load(input).positions

(* C6: set(p, v) with p off the board signals nothing, leaves at(p) absent *)
(* and every cell and the turn unchanged; with p on the board it           *)
(* overwrites exactly the cell p.                                          *)
C6_SetNoOpOffBoard ==
    last.op = "set" =>
        /\ status = "Ok"
        /\ turn = prev.turn
        /\ DOMAIN positions = DOMAIN prev.positions
        /\ \A q \in DOMAIN prev.positions :
              positions[q] = IF q = last.pos THEN last.piece ELSE prev.positions[q]
        /\ ~OnBoard(last.pos) => at(positions, last.pos) = None

(* A set of an off-board position on a board holding pieces. *)
C6_Witness ==
    /\ last.op = "set"
    /\ ~OnBoard(last.pos)
    /\ last.piece = White
    /\ \E q \in DOMAIN positions : positions[q] = Black
    /\ positions = prev.positions

(* C7: load either returns the error value, exactly when no character of   *)
(* the text is '-', 'X' or 'O', or returns a board whose minimum x and     *)
(* minimum y are both 0; it never aborts.                                  *)
C7_LoadNeverCrashes ==
    last.op = "load" =>
        /\ status \in {"Ok", "Err"}
        /\ status = "Err" <=> \A i \in 1..Len(input) : input[i] \notin {"-", "X", "O"}
        /\ status = "Ok" => min_x(positions) = 0 /\ min_y(positions) = 0

(* C8: from the board loaded from "X - - - O", Step((2,0)) yields (2,0)    *)
(* Black, (0,0) Black, (4,0) Empty, turn White; then Leap((8,0),(4,0))     *)
(* yields (8,0) Empty, (4,0) White, (2,0) White, (0,0) Black, (6,0) Empty, *)
(* turn Black.                                                             *)
C8_Scenario ==
    /\ hist = << >> =>
          /\ DOMAIN positions = {<<0, 0>>, <<2, 0>>, <<4, 0>>, <<6, 0>>, <<8, 0>>}
          /\ positions[<<0, 0>>] = Black
          /\ positions[<<8, 0>>] = White
          /\ positions[<<2, 0>>] = Empty
          /\ positions[<<4, 0>>] = Empty
          /\ positions[<<6, 0>>] = Empty
          /\ turn = Black
    /\ hist = <<Step(<<2, 0>>)>> =>
          /\ positions[<<2, 0>>] = Black
          /\ positions[<<0, 0>>] = Black
          /\ positions[<<4, 0>>] = Empty
          /\ turn = White
    /\ hist = <<Step(<<2, 0>>), Leap(<<8, 0>>, <<4, 0>>)>> =>
          /\ positions[<<8, 0>>] = Empty
          /\ positions[<<4, 0>>] = White
          /\ positions[<<2, 0>>] = White
          /\ positions[<<0, 0>>] = Black
          /\ positions[<<6, 0>>] = Empty
          /\ turn = Black

(* The two moves of the scenario have been made. *)
C8_Witness ==
    /\ input = ScenarioText
    /\ hist = <<Step(<<2, 0>>), Leap(<<8, 0>>, <<4, 0>>)>>
    /\ positions[<<2, 0>>] = White

(* C9: step_neighbors(p) and leap_neighbors(p) are empty for every p that  *)
(* is not a key of the board.                                              *)
C9_OffBoardNoNeighbors ==
    (last.op \in {"step_neighbors", "leap_neighbors"} /\ ~OnBoard(last.pos))
        => last.result = << >>

(* leap_neighbors of an off-board position that has on-board step and leap *)
(* offsets.                                                                *)
C9_Witness ==
    /\ last.op = "leap_neighbors"
    /\ ~OnBoard(last.pos)
    /\ StepRing(last.pos) \cap DOMAIN positions # {}
    /\ \E i \in 1..Len(LEAP_DIRECTIONS) :
          offset(last.pos, LEAP_DIRECTIONS[i]) \in DOMAIN positions
    /\ last.result = << >>

(* C10: for on-board p and q, q is in step_neighbors(p) if and only if p   *)
(* is in step_neighbors(q).                                                *)
C10_NeighborSymmetry ==
    (last.op = "step_neighbors" /\ OnBoard(last.pos)) =>
        \A q \in DOMAIN positions :
            q \in Range(last.result)
                <=> last.pos \in Range(step_neighbors(positions, q))

(* step_neighbors of the centre of the hexagon: its six neighbours. *)
C10_Witness ==
    /\ last.op = "step_neighbors"
    /\ OnBoard(last.pos)
    /\ Len(last.result) = 6

(* C11: after Leap(s, t) with s and t on the board, every cell other than  *)
(* s, t and the step-neighbours of t is unchanged: a flipped neighbour     *)
(* flips no neighbour of its own.                                          *)
C11_LeapFrame ==
    (IsLeap /\ OnBoard(last.mv.start) /\ OnBoard(last.mv.end)) =>
        /\ DOMAIN positions = DOMAIN prev.positions
        /\ \A q \in DOMAIN prev.positions :
              (q \notin {last.mv.start, last.mv.end} /\ q \notin StepRing(last.mv.end))
                  => positions[q] = prev.positions[q]

(* A Leap that captures a neighbour n of its target while an opponent's    *)
(* piece beside n, outside the target's step ring, stays as it was.        *)
C11_Witness ==
    /\ IsLeap
    /\ OnBoard(last.mv.start)
    /\ OnBoard(last.mv.end)
    /\ \E n \in Captured(last.mv.end) :
          /\ positions[n] = prev.turn
          /\ \E q \in (StepRing(n) \cap DOMAIN prev.positions)
                        \ (StepRing(last.mv.end) \cup {last.mv.start, last.mv.end}) :
                /\ prev.positions[q] = Opponent(prev.turn)
                /\ positions[q] = Opponent(prev.turn)

(* C12: the turn of a loaded board is Black or White in every reachable    *)
(* state, and Black right after load.                                      *)
C12_TurnIsPlayer ==
    status = "Ok" =>
        /\ turn \in {Black, White}
        /\ last.op = "load" => turn = Black

(* White has moved and the turn is Black again. *)
C12_Witness ==
    /\ IsStep
    /\ prev.turn = White
    /\ turn = Black
    /\ prev.positions # load(input).positions

(* The direction list of the query recorded in last, and the offsets of    *)
(* its position by that list.                                              *)
QueryDirs == IF last.op = "step_neighbors" THEN STEP_DIRECTIONS ELSE LEAP_DIRECTIONS

QueryOffsets ==
    [i \in 1..Len(QueryDirs) |->
        <<last.pos[1] + QueryDirs[i][1], last.pos[2] + QueryDirs[i][2]>>]

(* C14: for p on the board, step_neighbors(p) (leap_neighbors(p)) is the   *)
(* sequence of the offsets of p by the step (leap) directions, in their    *)
(* listed order, that are keys of the board, whatever they hold: it has no *)
(* duplicates, does not hold p and has at most 6 (12) elements.            *)
C14_NeighborResult ==
    (last.op \in {"step_neighbors", "leap_neighbors"} /\ OnBoard(last.pos)) =>
        LET res == last.result
            offs == QueryOffsets
        IN /\ Range(res) = Range(offs) \cap DOMAIN positions
           /\ \A i, j \in 1..Len(res) :
                 i < j => \E a, c \in 1..Len(offs) :
                              a < c /\ offs[a] = res[i] /\ offs[c] = res[j]
           /\ \A i, j \in 1..Len(res) : i # j => res[i] # res[j]
           /\ last.pos \notin Range(res)
           /\ Len(res) <= (IF last.op = "step_neighbors" THEN 6 ELSE 12)

(* leap_neighbors of an on-board position with three leap neighbours, one  *)
(* Empty and one holding a piece.                                          *)
C14_Witness ==
    /\ last.op = "leap_neighbors"
    /\ OnBoard(last.pos)
    /\ Len(last.result) >= 3
    /\ \E q \in Range(last.result) : positions[q] = Empty
    /\ \E q \in Range(last.result) : positions[q] = White

StepSet == Range(STEP_DIRECTIONS)

LeapSet == Range(LEAP_DIRECTIONS)

(* The sums of two step directions that are neither <<0, 0>> nor a step    *)
(* direction.                                                              *)
DistanceTwo ==
    {<<a[1] + c[1], a[2] + c[2]>> : <<a, c>> \in StepSet \X StepSet}
        \ ({<<0, 0>>} \cup StepSet)

(* C15: the leap directions are the direction vectors at hex distance two: *)
(* disjoint from the step directions, closed under negation, 12 distinct   *)
(* members; every leap neighbour returned lies at such a vector.           *)
C15_LeapRing ==
    /\ LeapSet = DistanceTwo
    /\ LeapSet \cap StepSet = {}
    /\ \A d \in LeapSet : <<0 - d[1], 0 - d[2]>> \in LeapSet
    /\ Cardinality(LeapSet) = 12
    /\ Len(LEAP_DIRECTIONS) = 12
    /\ last.op = "leap_neighbors" =>
          \A q \in Range(last.result) :
              <<q[1] - last.pos[1], q[2] - last.pos[2]>> \in DistanceTwo

(* leap_neighbors has returned two positions opposite each other. *)
C15_Witness ==
    /\ last.op = "leap_neighbors"
    /\ \E q, r \in Range(last.result) :
          /\ q # r
          /\ q[1] - last.pos[1] = last.pos[1] - r[1]
          /\ q[2] - last.pos[2] = last.pos[2] - r[2]

(* C16: Step(t) with t off the board leaves every cell unchanged and       *)
(* advances the turn; Leap(s, t) with s on the board and t off it sets s   *)
(* to Empty, changes no other cell and advances the turn; neither signals  *)
(* an error.                                                               *)
C16_OffBoardTarget ==
    /\ (IsStep /\ ~OnBoard(last.mv.pos)) =>
          /\ status = "Ok"
          /\ positions = prev.positions
          /\ turn = Opponent(prev.turn)
    /\ (IsLeap /\ OnBoard(last.mv.start) /\ ~OnBoard(last.mv.end)) =>
          /\ status = "Ok"
          /\ DOMAIN positions = DOMAIN prev.positions
          /\ \A q \in DOMAIN prev.positions :
                positions[q] = IF q = last.mv.start THEN Empty ELSE prev.positions[q]
          /\ turn = Opponent(prev.turn)

(* A Leap of a piece of the mover to an off-board position that has an     *)
(* opponent's piece one step away.                                         *)
C16_Witness ==
    /\ IsLeap
    /\ OnBoard(last.mv.start)
    /\ ~OnBoard(last.mv.end)
    /\ prev.positions[last.mv.start] = prev.turn
    /\ positions[last.mv.start] = Empty
    /\ Captured(last.mv.end) # {}
    /\ \A n \in Captured(last.mv.end) : positions[n] = Opponent(prev.turn)

Count(b, c) == Cardinality({q \in DOMAIN b : b[q] = c})

NonEmpty(b) == Cardinality({q \in DOMAIN b : b[q] # Empty})

WellFormedStep ==
    /\ IsStep
    /\ OnBoard(last.mv.pos)
    /\ prev.positions[last.mv.pos] = Empty

WellFormedLeap ==
    /\ IsLeap
    /\ OnBoard(last.mv.start)
    /\ OnBoard(last.mv.end)
    /\ last.mv.start # last.mv.end
    /\ prev.positions[last.mv.start] = prev.turn
    /\ prev.positions[last.mv.end] = Empty

(* C17: a Step onto an Empty on-board target adds one non-Empty cell; a    *)
(* Leap of a piece of the mover to a distinct Empty on-board target adds   *)
(* none.  With k the number of step-neighbours of the target that held the *)
(* opponent's colour, the opponent loses k pieces and the mover gains      *)
(* k + 1 (Step) or k (Leap).                                               *)
C17_PieceAccounting ==
    /\ WellFormedStep =>
          LET k == Cardinality(Captured(last.mv.pos))
          IN /\ NonEmpty(positions) = NonEmpty(prev.positions) + 1
             /\ Count(positions, Opponent(prev.turn))
                   = Count(prev.positions, Opponent(prev.turn)) - k
             /\ Count(positions, prev.turn) = Count(prev.positions, prev.turn) + k + 1
    /\ WellFormedLeap =>
          LET k == Cardinality(Captured(last.mv.end))
          IN /\ NonEmpty(positions) = NonEmpty(prev.positions)
             /\ Count(positions, Opponent(prev.turn))
                   = Count(prev.positions, Opponent(prev.turn)) - k
             /\ Count(positions, prev.turn) = Count(prev.positions, prev.turn) + k

(* A well-formed Leap that captures three pieces. *)
C17_Witness ==
    /\ WellFormedLeap
    /\ Cardinality(Captured(last.mv.end)) = 3
    /\ Count(positions, prev.turn) = Count(prev.positions, prev.turn) + 3

(* The piece a cell character stands for. *)
CharPiece(c) == IF c = "-" THEN Empty ELSE IF c = "X" THEN Black ELSE White

HasCell(text) == \E i \in 1..Len(text) : text[i] \in {"-", "X", "O"}

(* The cells of a board as triples <<x, y, piece>>. *)
CellsOf(b) == {<<p[1], p[2], b[p]>> : p \in DOMAIN b}

(* The cell characters of the de-indented block d, each at its column and  *)
(* at the row row[l] of its line l.                                        *)
BlockCells(d, row) ==
    UNION {{<<x - 1, row[l], CharPiece(d[l][x])>> :
               x \in {c \in 1..Len(d[l]) : d[l][c] \in {"-", "X", "O"}}} :
           l \in 1..Len(d)}

(* Rows numbered by line from the first line that is not blank, the blank  *)
(* lines after it counted.                                                 *)
LineRow(d) ==
    LET full == {l \in 1..Len(d) : ~IsBlank(d[l])}
        first == IF full = {} THEN 1 ELSE SetMin(full)
    IN [l \in 1..Len(d) |-> l - first]

(* Rows numbered over the lines that are not blank. *)
NonBlankRow(d) ==
    [l \in 1..Len(d) |-> Cardinality({j \in 1..(l - 1) : ~IsBlank(d[j])})]

(* C13, as claimed: the board load returns has exactly the cells at        *)
(* (character-column, line-row) of the de-indented block, a blank line     *)
(* between two rows counted as a row.                                      *)
C13_LoaderCells_Claimed ==
    (last.op = "load" /\ status = "Ok") =>
        CellsOf(positions) = BlockCells(dedent(input), LineRow(dedent(input)))

(* C13, amended: for a text with a recognised character, the cells load    *)
(* builds are those of the de-indented block at (character-column, row),   *)
(* the rows numbered over the non-blank lines only; load returns that      *)
(* board when some cell has column 0 and some cell has row 0, and aborts   *)
(* otherwise.                                                              *)
C13_LoaderCells ==
    (last.op = "load" /\ HasCell(input)) =>
        LET cells == BlockCells(dedent(input), NonBlankRow(dedent(input)))
        IN /\ status \in {"Ok", "Panic"}
           /\ status = "Ok" <=> /\ \E c \in cells : c[1] = 0
                                /\ \E c \in cells : c[2] = 0
           /\ status = "Ok" => CellsOf(positions) = cells

(* A board loaded from two rows with a blank line between them. *)
C13_Witness ==
    /\ last.op = "load"
    /\ status = "Ok"
    /\ Len(dedent(input)) = 3
    /\ IsBlank(dedent(input)[2])
    /\ <<0, 1>> \in DOMAIN positions
    /\ positions[<<0, 1>>] = White

(* Every row from 0 to max_y holds a cell. *)
EveryRowHasCell ==
    \A y \in 0..max_y(positions) : \E p \in DOMAIN positions : p[2] = y

(* C18, as claimed: for every board returned by load and every state       *)
(* reached from it by do_move, loading the rendered text succeeds and      *)
(* yields the same position-to-piece map.                                  *)
C18_RoundTrip_Claimed ==
    last.op = "render" =>
        /\ last.reload.status = "Ok"
        /\ last.reload.positions = positions

(* C18, amended: loading the rendered text succeeds, and it yields the     *)
(* same position-to-piece map exactly when every row from 0 to max_y of    *)
(* the board holds at least one cell.                                      *)
C18_RoundTrip ==
    last.op = "render" =>
        /\ last.reload.status = "Ok"
        /\ last.reload.positions = positions <=> EveryRowHasCell

(* A board of two rows, the second starting at column 1, rendered after a  *)
(* move and loaded back as it is.                                          *)
C18_Witness ==
    /\ last.op = "render"
    /\ turn = White
    /\ <<1, 1>> \in DOMAIN positions
    /\ <<0, 1>> \notin DOMAIN positions
    /\ \E p \in DOMAIN positions : positions[p] = Black
    /\ last.reload.positions = positions

====
